---- MODULE Spec2Model ----
(***************************************************************************)
(* Rankedterview backend: the matchmaking queue (MatchmakingService and    *)
(* its HTTP handlers), the connection hub (Hub register / unregister /     *)
(* dispatch) and the call-readiness handshake (Client.handleAcceptMatch).  *)
(* Every Redis call of a handler is one step, so that concurrent requests  *)
(* and concurrent connections interleave between the calls as they do in   *)
(* the Go program.                                                         *)
(***************************************************************************)
EXTENDS Integers, Sequences, FiniteSets, Bags, TLC

\* ------------------------------------------------------------------ bounds
\* HTTP requests started in one behaviour.
MaxReqs == 4
\* Last value of the Unix-seconds clock.
MaxTime == 2
\* Messages handed to the hub (BroadcastToUser, relayWebRTC) in one behaviour.
MaxSends == 1
\* accept_match messages handled in one behaviour.
MaxAccepts == 3

\* ------------------------------------------------------------------- users
Users == {"u1", "u2", "u3"}

\* The request goroutines that run at the same time (gin runs one goroutine
\* per request): the claims on the queue are about two overlapping requests.
Goroutines == {"g1", "g2"}

\* Go's empty string: "no user", "no room".
NoUser == ""

\* Byte-wise order of the user ids (Redis orders equal scores by member,
\* sort.Strings orders the accepted users).
UserOrd(u) == CASE u = "u1" -> 1 [] u = "u2" -> 2 [] u = "u3" -> 3 [] OTHER -> 0

VARIABLES
    now,        \* time.Now().Unix()
    queue,      \* sorted set "matchmaking:queue": <<[member, score, entry]>> in rank order
    meta,       \* users that have a hash "matchmaking:user:{id}"
    joins,      \* per user, the number of Queue Entries created so far (entry identity)
    rooms,      \* rooms created by CreateRoomForMatch, in creation order
    req,        \* the request goroutines in flight (a bag): handler position and locals
    ret,        \* what the handler that returned in the last step returned
    started,    \* number of requests started
    \* --- the hub (one process)
    clients,    \* Hub.clients: user -> the connection registered for it
    conn,       \* per connection (Client): stage, RoomID, send channel, closed, socket
    registerCh, \* Hub.register
    unregisterCh, \* Hub.unregister
    broadcastCh, \* Hub.broadcast, the dispatch queue
    dispatch,   \* sendToUser calls of the workers between lookup and send (a bag)
    regSeq,     \* per user, the number of registrations processed
    lastHub,    \* the last register / unregister the hub loop processed
    crashed,    \* the process panicked (send on a closed channel)
    sends,      \* number of messages handed to the hub
    \* --- the call-readiness handshake of room 1
    variant,    \* which Client.handleAcceptMatch is built: "sorted" or "arrival"
    accepted,   \* the Redis set "...:{roomID}:accepted"
    acc,        \* per connection, the position of its handleAcceptMatch
    lastAccept, \* what the handleAcceptMatch that read the set in the last step saw
    sinceClear, \* users whose SAdd ran since the set was last deleted or expired
    handshakes, \* number of times a handler deleted the set
    emitted,    \* the listings of acceptedUsers that both_ready loops ran over
    accepts,    \* number of accept_match messages handled
    \* --- the room documents and the room service
    records,    \* collection "rooms": per room, participants and status
    svc,        \* per goroutine, the RoomService call it is in: position and locals
    svcRet,     \* what the RoomService call that returned in the last step returned
    svcCalls,   \* number of RoomService calls started
    \* --- the hub's cache of room participants
    roomCache,  \* Hub.rooms: per room id, the cached participants and cachedAt
    lookup,     \* per goroutine, the getRoomParticipants call it is in
    got,        \* what the getRoomParticipants that returned in the last step returned
    expired,    \* room ids whose hash room:{id} has expired in the store
    invalidated, \* room ids invalidated with no lookup started since
    lookups     \* number of getRoomParticipants calls started

mmVars == <<now, queue, meta, joins, req, ret, started>>

hubVars == <<clients, conn, registerCh, unregisterCh, broadcastCh, dispatch,
             regSeq, lastHub, crashed, sends>>

accVars == <<variant, accepted, acc, lastAccept, sinceClear, handshakes, emitted,
             accepts>>

cacheVars == <<roomCache, lookup, got, expired, invalidated, lookups>>

roomVars == <<records, svc, svcRet, svcCalls, cacheVars>>

vars == <<mmVars, rooms, hubVars, accVars, roomVars>>
\* RoomRepository.Create for a match: both users, status "waiting".
Create(user1, user2) == [participants |-> <<user1, user2>>, status |-> "waiting"]

NoCall == [op |-> "none", pc |-> "idle", room |-> 0, user |-> NoUser, n |-> 0]

\* No RoomService call is running.
InitSvcIdle ==
    /\ svc = [g \in Goroutines |-> NoCall]
    /\ svcRet = "none"
    /\ svcCalls = 0

\* Room ids a request can name; the last one has no document and no hash.
RoomIDs == 1..2

\* Hub.rooms has no entry for a room; cachedAt is the time.Now() of the
\* store into the cache, fetchedAt the time of the HGetAll it holds.
NoCache == [present |-> FALSE, participants |-> {}, cachedAt |-> 0, fetchedAt |-> 0]

NoLookup == [pc |-> "idle", room |-> 0, participants |-> {}, at |-> 0, first |-> FALSE]

NoGot == [room |-> 0, result |-> "none", participants |-> {}, current |-> {},
          age |-> 0, first |-> FALSE]

\* NewHub: an empty room cache, no lookup running.
InitCacheIdle ==
    /\ roomCache = [i \in RoomIDs |-> NoCache]
    /\ lookup = [g \in Goroutines |-> NoLookup]
    /\ got = NoGot
    /\ expired = {}
    /\ invalidated = {}
    /\ lookups = 0


\* --------------------------------------------------------------------- hub
\* The connections: two of user u1 (a reconnect), one of u2.
Conns == {"c1", "c2", "c3", "c4"}

ConnUser(c) == CASE c = "c1" -> "u1" [] c = "c2" -> "u1" [] c = "c3" -> "u2" [] c = "c4" -> "u3"

NoConn == "none"

\* make(chan *Client, 100)
RegisterBuf == 100
\* broadcastBufferSize
BroadcastBufferSize == 1024
\* make(chan []byte, 256)
ClientBufferSize == 256
\* numWorkers
NumWorkers == 4

\* NewClient: no room latched, an empty open send channel.
NewClient ==
    [stage |-> "new", writer |-> FALSE, RoomID |-> 0, send |-> <<>>, closed |-> FALSE,
     sock |-> "open", gen |-> 0]

NoHubOp == [op |-> "none", c |-> NoConn, stale |-> FALSE]

\* ------------------------------------------------------- Redis sorted set
\* Rank order of a sorted set: by score, then by member.
ZLess(x, y) ==
    \/ x.score < y.score
    \/ x.score = y.score /\ UserOrd(x.member) < UserOrd(y.member)

ZMembers(q) == {q[i].member : i \in 1..Len(q)}

\* The Queue Entries of the set: member and entry number.
Entries(q) == {<<q[i].member, q[i].entry>> : i \in 1..Len(q)}

ZIndex(q, member) == CHOOSE i \in 1..Len(q) : q[i].member = member

\* ZREM key member
ZRem(q, member) == SelectSeq(q, LAMBDA e : e.member # member)

ZInsert(q, e) ==
    LET k == Cardinality({i \in 1..Len(q) : ZLess(q[i], e)})
    IN  SubSeq(q, 1, k) \o <<e>> \o SubSeq(q, k + 1, Len(q))

\* Mutant: an insertion that does not look for the member (a list push).
ZAdd_Bug(q, member, score, entry) ==
    ZInsert(q, [member |-> member, score |-> score, entry |-> entry])

\* ZADD key score member: adds the member, or moves it to the new score.
ZAdd(q, member, score, entry) ==
    IF member \in ZMembers(q)
    THEN ZInsert(ZRem(q, member),
                 [member |-> member, score |-> score, entry |-> q[ZIndex(q, member)].entry])
    ELSE ZInsert(q, [member |-> member, score |-> score, entry |-> entry])

\* ZSCORE key member: (score, found)
ZScore(q, member) ==
    IF member \in ZMembers(q) THEN q[ZIndex(q, member)].score ELSE -1

\* ZRANK key member: 0-based rank, -1 for redis.Nil
ZRank(q, member) ==
    IF member \in ZMembers(q) THEN ZIndex(q, member) - 1 ELSE -1

\* ZRANGE key 0 -1
ZRange(q) == [i \in 1..Len(q) |-> q[i].member]

\* ----------------------------------------------------- MatchmakingService
\* IsInQueue: an error of ZScore means "not in queue"; otherwise score > 0.
IsInQueue(q, userID) ==
    IF ZScore(q, userID) = -1 THEN FALSE ELSE ZScore(q, userID) > 0

\* The scan of FindMatch over the members read, from position i with the
\* user1 found so far: <<user1, user2>>.
RECURSIVE Scan(_, _, _, _)
Scan(members, userID, i, user1) ==
    IF i > Len(members) THEN <<user1, NoUser>>
    ELSE IF members[i] = userID THEN Scan(members, userID, i + 1, members[i])
    ELSE IF user1 # NoUser THEN <<user1, members[i]>>
    ELSE Scan(members, userID, i + 1, members[i])

\* The pair FindMatch picks from the members read, <<"", "">> for ErrNoMatchFound.
FindPair(members, userID) ==
    IF Len(members) < 2 THEN <<NoUser, NoUser>>
    ELSE LET p == Scan(members, userID, 1, NoUser)
         IN  IF p[1] = NoUser \/ p[2] = NoUser THEN <<NoUser, NoUser>> ELSE p

\* GetQueueStatus: position, 0 for ErrNotInQueue.
Position(q, userID) == IF ZRank(q, userID) = -1 THEN 0 ELSE ZRank(q, userID) + 1

\* LeaveQueue on the queue: ZREM.
LeaveQueueZ(q, userID) == ZRem(q, userID)

\* ---------------------------------------------------------------- requests
\* A request goroutine: the handler (op), where it stands (pc), its locals;
\* "before" remembers the Queue Entries present when a JoinQueue started.
NoReq ==
    [op |-> "none", pc |-> "none", userID |-> NoUser, read |-> <<>>,
     user1 |-> NoUser, user2 |-> NoUser, entry1 |-> 0, entry2 |-> 0,
     roomID |-> 0, result |-> "none",
     added |-> FALSE, hadEntry |-> FALSE, before |-> {}]

NewReq(op, u) == [NoReq EXCEPT !.op = op, !.userID = u]

InFlight == BagToSet(req)

\* gin serves every request on a goroutine of its own.
CanStart == BagCardinality(req) < Cardinality(Goroutines) /\ started < MaxReqs

Fork(r) == req (+) SetToBag({r})

Step(r, r2) == (req (-) SetToBag({r})) (+) SetToBag({r2})

Exit(r) == req (-) SetToBag({r})

\* The expiry window of the metadata hash "matchmaking:user:{id}"
\* (30 minutes), in steps of the clock.
MetaTTL == 1

\* The metadata hashes whose expiry has elapsed at time t; the window runs
\* from the join, whose time is the score of the user's member.
Expired(q, m, t) == {u \in m : u \in ZMembers(q) /\ ZScore(q, u) + MetaTTL <= t}

\* The clock advances by one step; Redis drops the metadata hashes whose
\* expiry has elapsed.
Tick ==
    /\ now < MaxTime
    /\ now' = now + 1
    /\ meta' = meta \ Expired(queue, meta, now + 1)
    /\ ret' = NoReq
    /\ UNCHANGED <<queue, joins, rooms, roomVars, req, started, hubVars, accVars>>

\* A JoinQueue request of user u arrives; the IsInQueue check.
JoinCheck(u) ==
    /\ CanStart
    /\ started' = started + 1
    /\ IF IsInQueue(queue, u)
       THEN /\ ret' = [NewReq("JoinQueue", u) EXCEPT !.result = "AlreadyQueued"]
            /\ req' = req
       ELSE /\ ret' = NoReq
            /\ req' = Fork([NewReq("JoinQueue", u) EXCEPT !.pc = "jq_add",
                                                            !.before = Entries(queue)])
    /\ UNCHANGED <<now, queue, meta, joins, rooms, roomVars, hubVars, accVars>>

\* JoinQueue, the ZAdd with the join time as score, the metadata hash and
\* its expiry; the handler answers "joined" and starts tryMatch in a goroutine.
JoinAdd(r) ==
    /\ r \in InFlight /\ r.pc = "jq_add"
    /\ LET u == r.userID
           had == u \in ZMembers(queue)
       IN  /\ queue' = ZAdd(queue, u, now, joins[u] + 1)
           /\ joins' = IF had THEN joins ELSE [joins EXCEPT ![u] = @ + 1]
           /\ meta' = meta \cup {u}
           /\ ret' = [r EXCEPT !.pc = "none", !.result = "joined", !.added = TRUE,
                               !.hadEntry = had]
           /\ req' = Step(r, [r EXCEPT !.pc = "fm_read", !.before = {}])
    /\ UNCHANGED <<now, rooms, roomVars, started, hubVars, accVars>>

\* A LeaveQueue request of user u: ZREM and the deletion of the metadata hash.
LeaveQueue(u) ==
    /\ CanStart
    /\ started' = started + 1
    /\ queue' = LeaveQueueZ(queue, u)
    /\ meta' = meta \ {u}
    /\ ret' = [NewReq("LeaveQueue", u) EXCEPT !.result = "left"]
    /\ UNCHANGED <<now, joins, rooms, roomVars, req, hubVars, accVars>>

\* A GetQueueStatus request of user u arrives; the ZRank: ErrNotInQueue ends
\* the request, otherwise the handler goes on to FindMatch.
StatusRank(u) ==
    /\ CanStart
    /\ started' = started + 1
    /\ IF Position(queue, u) = 0
       THEN /\ ret' = [NewReq("GetQueueStatus", u) EXCEPT !.result = "NotQueued"]
            /\ req' = req
       ELSE /\ ret' = NoReq
            /\ req' = Fork([NewReq("GetQueueStatus", u) EXCEPT !.pc = "fm_read"])
    /\ UNCHANGED <<now, queue, meta, joins, rooms, roomVars, hubVars, accVars>>

\* The Queue Entry (its number) of member u in the queue.
EntryOf(q, u) == q[ZIndex(q, u)].entry

\* FindMatch, the ZRange and the scan of the members read.
FindRead(r) ==
    /\ r \in InFlight /\ r.pc = "fm_read"
    /\ LET members == ZRange(queue)
           p == FindPair(members, r.userID)
       IN  IF p[1] = NoUser
           THEN /\ ret' = [r EXCEPT !.pc = "none", !.result = "NoMatchFound"]
                /\ req' = Exit(r)
           ELSE /\ ret' = NoReq
                /\ req' = Step(r, [r EXCEPT !.pc = "fm_create", !.read = members,
                                            !.user1 = p[1], !.user2 = p[2],
                                            !.entry1 = EntryOf(queue, p[1]),
                                            !.entry2 = EntryOf(queue, p[2])])
    /\ UNCHANGED <<now, queue, meta, joins, rooms, roomVars, started, hubVars, accVars>>

\* FindMatch, CreateRoomForMatch: the room document and the hash room:{id};
\* an error of the store ends FindMatch with nothing removed.
FindCreate(r) ==
    /\ r \in InFlight /\ r.pc = "fm_create"
    /\ \E ok \in BOOLEAN :
         IF ok
         THEN /\ rooms' = Append(rooms,
                    [user1 |-> r.user1, user2 |-> r.user2,
                     entry1 |-> r.entry1, entry2 |-> r.entry2])
              /\ records' = Append(records, Create(r.user1, r.user2))
              /\ ret' = NoReq
              /\ req' = Step(r, [r EXCEPT !.pc = "fm_leave1", !.roomID = Len(rooms) + 1])
         ELSE /\ rooms' = rooms
              /\ records' = records
              /\ ret' = [r EXCEPT !.pc = "none", !.result = "error"]
              /\ req' = Exit(r)
    /\ UNCHANGED <<now, queue, meta, joins, started, hubVars, accVars, svc, svcRet, svcCalls,
                   cacheVars>>

\* FindMatch, LeaveQueue(user1).
FindLeave1(r) ==
    /\ r \in InFlight /\ r.pc = "fm_leave1"
    /\ queue' = LeaveQueueZ(queue, r.user1)
    /\ meta' = meta \ {r.user1}
    /\ ret' = NoReq
    /\ req' = Step(r, [r EXCEPT !.pc = "fm_leave2"])
    /\ UNCHANGED <<now, joins, rooms, roomVars, started, hubVars, accVars>>

\* Who the caller of FindMatch tells about the match: tryMatch pushes
\* match_found to userID and to the opponent; GetQueueStatus pushes it to
\* the opponent and answers matchFound to userID.
Told(r) == {r.userID, r.user2}

\* Mutant: the second LeaveQueue removes user1 again.
Leave2User_Bug(r) == r.user1

\* The user FindMatch removes with its second LeaveQueue.
Leave2User(r) == r.user2

\* FindMatch, LeaveQueue(user2) and the return of (roomID, user2); the
\* caller then tells the users about the match.
FindLeave2(r) ==
    /\ r \in InFlight /\ r.pc = "fm_leave2"
    /\ queue' = LeaveQueueZ(queue, Leave2User(r))
    /\ meta' = meta \ {Leave2User(r)}
    /\ ret' = [r EXCEPT !.pc = "none", !.result = "matched"]
    /\ req' = Exit(r)
    /\ UNCHANGED <<now, joins, rooms, roomVars, started, hubVars, accVars>>

InitMM ==
    /\ now = 1
    /\ queue = <<>>
    /\ meta = {}
    /\ joins = [u \in Users |-> 0]
    /\ rooms = <<>>
    /\ records = <<>>
    /\ InitSvcIdle
    /\ InitCacheIdle
    /\ req = EmptyBag
    /\ ret = NoReq
    /\ started = 0

\* The hub before any connection.
InitHubIdle ==
    /\ clients = [u \in Users |-> NoConn]
    /\ conn = [c \in Conns |-> NewClient]
    /\ registerCh = <<>>
    /\ unregisterCh = <<>>
    /\ broadcastCh = <<>>
    /\ dispatch = EmptyBag
    /\ regSeq = [u \in Users |-> 0]
    /\ lastHub = NoHubOp
    /\ crashed = FALSE
    /\ sends = 0

NoAccept == [c |-> NoConn, members |-> <<>>, fresh |-> {}]

\* No accept_match has been handled.
InitAcceptIdle ==
    /\ variant = "sorted"
    /\ accepted = {}
    /\ acc = [c \in Conns |-> "idle"]
    /\ lastAccept = NoAccept
    /\ sinceClear = {}
    /\ handshakes = 0
    /\ emitted = {}
    /\ accepts = 0

NextMM ==
    \/ Tick
    \/ \E u \in Users : JoinCheck(u)
    \/ \E r \in InFlight : JoinAdd(r)
    \/ \E u \in Users : LeaveQueue(u)
    \/ \E u \in Users : StatusRank(u)
    \/ \E r \in InFlight : FindRead(r)
    \/ \E r \in InFlight : FindCreate(r)
    \/ \E r \in InFlight : FindLeave1(r)
    \/ \E r \in InFlight : FindLeave2(r)

InitQueue == InitMM /\ InitHubIdle /\ InitAcceptIdle

SpecMM == InitQueue /\ [][NextMM]_vars

\* ---------------------------------------------------------- hub operations
\* A hub Message with its payload: kind "user" (UserID set) or "all"
\* (Broadcast, with Exclude); gen is the number of registrations of the
\* target user that had been processed when the message was handed over.
UserMsg(type, to, roomId, role, gen) ==
    [kind |-> "user", type |-> type, to |-> to, from |-> NoUser, exclude |-> NoUser,
     roomId |-> roomId, role |-> role, gen |-> gen]

AllMsg(type, from, roomId) ==
    [kind |-> "all", type |-> type, to |-> NoUser, from |-> from, exclude |-> from,
     roomId |-> roomId, role |-> "", gen |-> 0]

\* A room Message or payload: from is the sending user, exclude the user
\* that broadcastToRoomInternal skips ("" for none).
RoomMsg(type, from, exclude, roomId) ==
    [kind |-> "room", type |-> type, to |-> NoUser, from |-> from, exclude |-> exclude,
     roomId |-> roomId, role |-> "", gen |-> 0]

\* A non-blocking channel send: select { case ch <- m: default: }.
TrySend(ch, m, cap) == IF Len(ch) < cap THEN Append(ch, m) ELSE ch

\* sendToClient / Client.Send on the connections cn: the payload is queued on
\* c's send channel unless the buffer is full.
sendToClient(cn, c, m) == [cn EXCEPT ![c].send = TrySend(@, m, ClientBufferSize)]

\* Mutant: the room hash is not found.
getRoomParticipants_Bug(roomID) == {}

\* The participants stored in the hash room:{roomID} (fields user1, user2):
\* what HGetAll returns, and what the cached lookup returns as long as the
\* hash does not change.
getRoomParticipants(roomID) ==
    IF roomID \in 1..Len(rooms) /\ roomID \notin expired
    THEN {rooms[roomID].user1, rooms[roomID].user2}
    ELSE {}

\* Mutant: the excluded user is not skipped.
RoomTargetsOf_Bug(cl, participants, exclude) ==
    {cl[p] : p \in {q \in participants : cl[q] # NoConn}}

\* The loop of broadcastToRoomInternal over the participants it was given:
\* the registered clients of those that are not the excluded user.
RoomTargetsOf(cl, participants, exclude) ==
    {cl[p] : p \in {q \in participants : q # exclude /\ cl[q] # NoConn}}

\* The connections broadcastToRoomInternal sends to.
RoomTargets(cl, roomID, exclude) ==
    RoomTargetsOf(cl, getRoomParticipants(roomID), exclude)

\* The connections broadcastToAllClients sends to.
AllTargets(cl, exclude) ==
    {cl[p] : p \in {q \in Users : q # exclude /\ cl[q] # NoConn}}

\* sendToClient to every connection of targets (one queue each).
SendAll(cn, targets, m) ==
    [c \in Conns |-> IF c \in targets
                     THEN [cn[c] EXCEPT !.send = TrySend(@, m, ClientBufferSize)]
                     ELSE cn[c]]

\* A send on a closed channel panics.
Panics(cn, targets) == \E c \in targets : cn[c].closed

\* HandleWebSocket: the upgrade, NewClient, hub.Register and the two pumps.
HandleWebSocket(c) ==
    /\ ~crashed
    /\ conn[c].stage = "new"
    /\ conn' = [conn EXCEPT ![c].stage = "open", ![c].writer = TRUE]
    /\ registerCh' = TrySend(registerCh, c, RegisterBuf)
    /\ lastHub' = NoHubOp
    /\ UNCHANGED <<clients, unregisterCh, broadcastCh, dispatch, regSeq, crashed, sends,
                   mmVars, rooms, roomVars, accVars>>

\* Mutant: an existing entry is kept.
NewEntry_Bug(existing, c) == IF existing # NoConn THEN existing ELSE c

\* The connection registerClient stores for the user: always the new one.
NewEntry(existing, c) == c

\* Hub.Run takes a client from the register channel: registerClient.
registerClient ==
    /\ ~crashed
    /\ registerCh # <<>>
    /\ LET c == Head(registerCh)
           u == ConnUser(c)
           existing == clients[u]
           g == regSeq[u] + 1
           welcome == UserMsg("connected", u, 0, "", g)
       IN  /\ clients' = [clients EXCEPT ![u] = NewEntry(existing, c)]
           /\ regSeq' = [regSeq EXCEPT ![u] = g]
           /\ conn' = [x \in Conns |->
                         IF x = c
                         THEN [conn[x] EXCEPT !.gen = g,
                                              !.send = TrySend(@, welcome, ClientBufferSize)]
                         ELSE IF x = existing /\ conn[x].sock = "open"
                         THEN [conn[x] EXCEPT !.sock = "closing"]
                         ELSE conn[x]]
           /\ lastHub' = [op |-> "register", c |-> c, stale |-> FALSE]
    /\ registerCh' = Tail(registerCh)
    /\ UNCHANGED <<unregisterCh, broadcastCh, dispatch, crashed, sends, mmVars, rooms, roomVars, accVars>>

\* The goroutine registerClient started for the replaced connection closes
\* its socket after 100 ms.
GraceClose(c) ==
    /\ ~crashed
    /\ conn[c].sock = "closing"
    /\ conn' = [conn EXCEPT ![c].sock = "closed"]
    /\ lastHub' = NoHubOp
    /\ UNCHANGED <<clients, registerCh, unregisterCh, broadcastCh, dispatch, regSeq,
                   crashed, sends, mmVars, rooms, roomVars, accVars>>

\* ReadPump: ReadMessage fails (peer close, deadline, closed socket); the
\* deferred hub.Unregister and conn.Close.
ReadPumpExit(c) ==
    /\ ~crashed
    /\ conn[c].stage = "open"
    /\ conn' = [conn EXCEPT ![c].stage = "readDone", ![c].sock = "closed"]
    /\ unregisterCh' = TrySend(unregisterCh, c, RegisterBuf)
    /\ lastHub' = NoHubOp
    /\ UNCHANGED <<clients, registerCh, broadcastCh, dispatch, regSeq, crashed, sends,
                   mmVars, rooms, roomVars, accVars>>

\* Mutant: any entry of the user counts as this client's.
IsCurrent_Bug(cl, c) == cl[ConnUser(c)] # NoConn

\* unregisterClient's guard: the entry exists and is this very client.
IsCurrent(cl, c) == cl[ConnUser(c)] # NoConn /\ cl[ConnUser(c)] = c

\* unregisterClient's "safe close": a receive that succeeds (a queued
\* message, or a closed channel) skips the close.
SafeClose(cr) ==
    IF cr.send # <<>> THEN [cr EXCEPT !.send = Tail(@)]
    ELSE IF cr.closed THEN cr
    ELSE [cr EXCEPT !.closed = TRUE]

\* The partner_disconnected payload of unregisterClient.
PartnerDisconnected(u, roomID) ==
    RoomMsg("partner_disconnected", u, u, roomID)

\* Hub.Run takes a client from the unregister channel: unregisterClient.
unregisterClient ==
    /\ ~crashed
    /\ unregisterCh # <<>>
    /\ Head(unregisterCh) \in Conns
    /\ LET c == Head(unregisterCh)
           u == ConnUser(c)
           stale == clients[u] # NoConn /\ clients[u] # c
       IN  /\ lastHub' = [op |-> "unregister", c |-> c, stale |-> stale]
           /\ IF IsCurrent(clients, c)
              THEN LET cl == [clients EXCEPT ![u] = NoConn]
                       cn == [conn EXCEPT ![c] = SafeClose(@)]
                       roomID == conn[c].RoomID
                       targets == RoomTargets(cl, roomID, u)
                       m == PartnerDisconnected(u, roomID)
                   IN  /\ clients' = cl
                       /\ IF roomID # 0
                          THEN /\ conn' = SendAll(cn, targets, m)
                               /\ crashed' = Panics(cn, targets)
                          ELSE /\ conn' = cn
                               /\ crashed' = crashed
              ELSE UNCHANGED <<clients, conn, crashed>>
    /\ unregisterCh' = Tail(unregisterCh)
    /\ UNCHANGED <<registerCh, broadcastCh, dispatch, regSeq, sends, mmVars, rooms, roomVars, accVars>>

\* relayWebRTC of an offer / answer / candidate read from connection c for
\* room roomID: the room is latched, the payload goes to the room except the
\* sender, and to the dispatch queue for everyone except the sender.
relayWebRTC(c, roomID) ==
    /\ ~crashed
    /\ conn[c].stage = "open"
    /\ sends < MaxSends
    /\ sends' = sends + 1
    /\ LET u == ConnUser(c)
           cn == [conn EXCEPT ![c].RoomID = IF @ = 0 THEN roomID ELSE @]
           targets == RoomTargets(clients, roomID, u)
           m == RoomMsg("webrtc", u, u, roomID)
       IN  /\ conn' = SendAll(cn, targets, m)
           /\ crashed' = Panics(cn, targets)
           /\ broadcastCh' = TrySend(broadcastCh, AllMsg("webrtc", u, roomID),
                                     BroadcastBufferSize)
    /\ lastHub' = NoHubOp
    /\ UNCHANGED <<clients, registerCh, unregisterCh, dispatch, regSeq, mmVars, rooms, roomVars, accVars>>

\* BroadcastToUser(userID, data), called by a request or message handler.
BroadcastToUser(u) ==
    /\ ~crashed
    /\ sends < MaxSends
    /\ sends' = sends + 1
    /\ broadcastCh' = TrySend(broadcastCh, UserMsg("data", u, 0, "", regSeq[u]),
                              BroadcastBufferSize)
    /\ lastHub' = NoHubOp
    /\ UNCHANGED <<clients, conn, registerCh, unregisterCh, dispatch, regSeq, crashed,
                   mmVars, rooms, roomVars, accVars>>

\* A broadcastWorker takes a message: handleBroadcast. A broadcast is sent to
\* all clients under the read lock; for a user message sendToUser looks the
\* client up under the read lock and sends after releasing it.
handleBroadcast ==
    /\ ~crashed
    /\ broadcastCh # <<>>
    /\ BagCardinality(dispatch) < NumWorkers
    /\ LET m == Head(broadcastCh)
       IN  IF m.kind = "all"
           THEN /\ conn' = SendAll(conn, AllTargets(clients, m.exclude), m)
                /\ crashed' = Panics(conn, AllTargets(clients, m.exclude))
                /\ dispatch' = dispatch
           ELSE IF m.kind = "room"
           THEN /\ conn' = SendAll(conn, RoomTargets(clients, m.roomId, m.exclude), m)
                /\ crashed' = Panics(conn, RoomTargets(clients, m.roomId, m.exclude))
                /\ dispatch' = dispatch
           ELSE /\ dispatch' = IF clients[m.to] # NoConn
                               THEN dispatch (+) SetToBag({[m |-> m, client |-> clients[m.to]]})
                               ELSE dispatch
                /\ UNCHANGED <<conn, crashed>>
    /\ broadcastCh' = Tail(broadcastCh)
    /\ lastHub' = NoHubOp
    /\ UNCHANGED <<clients, registerCh, unregisterCh, regSeq, sends, mmVars, rooms, roomVars, accVars>>

\* sendToUser, after the lookup: sendToClient on the client it found.
sendToUser(d) ==
    /\ ~crashed
    /\ d \in BagToSet(dispatch)
    /\ dispatch' = dispatch (-) SetToBag({d})
    /\ IF conn[d.client].closed
       THEN crashed' = TRUE /\ conn' = conn
       ELSE crashed' = crashed /\ conn' = sendToClient(conn, d.client, d.m)
    /\ lastHub' = NoHubOp
    /\ UNCHANGED <<clients, registerCh, unregisterCh, broadcastCh, regSeq, sends,
                   mmVars, rooms, roomVars, accVars>>

\* WritePump takes the next message of the send channel and writes it; a
\* write on a closed socket fails and ends the pump.
WritePump(c) ==
    /\ ~crashed
    /\ conn[c].writer
    /\ conn[c].send # <<>>
    /\ conn' = [conn EXCEPT ![c].send = Tail(@),
                            ![c].writer = (conn[c].sock # "closed")]
    /\ lastHub' = NoHubOp
    /\ UNCHANGED <<clients, registerCh, unregisterCh, broadcastCh, dispatch, regSeq,
                   crashed, sends, mmVars, rooms, roomVars, accVars>>

\* WritePump ends: the channel was closed by the hub, or the ping write
\* failed on a closed socket; the deferred conn.Close.
WritePumpExit(c) ==
    /\ ~crashed
    /\ conn[c].writer
    /\ \/ conn[c].send = <<>> /\ conn[c].closed
       \/ conn[c].sock = "closed"
    /\ conn' = [conn EXCEPT ![c].writer = FALSE, ![c].sock = "closed"]
    /\ lastHub' = NoHubOp
    /\ UNCHANGED <<clients, registerCh, unregisterCh, broadcastCh, dispatch, regSeq,
                   crashed, sends, mmVars, rooms, roomVars, accVars>>

\* The store after users u1 and u2 were matched into room 1 and nobody waits.
InitMatched ==
    /\ now = 1
    /\ queue = <<>>
    /\ meta = {}
    /\ joins = [u \in Users |-> IF u \in {"u1", "u2"} THEN 1 ELSE 0]
    /\ rooms = <<[user1 |-> "u1", user2 |-> "u2", entry1 |-> 1, entry2 |-> 1]>>
    /\ records = <<Create("u1", "u2")>>
    /\ InitSvcIdle
    /\ InitCacheIdle
    /\ req = EmptyBag
    /\ ret = NoReq
    /\ started = 0

\* The connections dialled while the hub is exercised.
Dialled == {"c1", "c2"}

NextHub ==
    \/ \E c \in Dialled : HandleWebSocket(c)
    \/ registerClient
    \/ \E c \in Conns : GraceClose(c)
    \/ \E c \in Conns : ReadPumpExit(c)
    \/ unregisterClient
    \/ \E c \in Conns : relayWebRTC(c, 1)
    \/ \E u \in Users : BroadcastToUser(u)
    \/ handleBroadcast
    \/ \E d \in BagToSet(dispatch) : sendToUser(d)
    \/ \E c \in Conns : WritePump(c)
    \/ \E c \in Conns : WritePumpExit(c)

\* The hub after u2 connected with c3 and its welcome was written.
InitPartner ==
    /\ clients = [u \in Users |-> IF u = "u2" THEN "c3" ELSE NoConn]
    /\ conn = [c \in Conns |-> IF c = "c3"
                               THEN [NewClient EXCEPT !.stage = "open", !.writer = TRUE,
                                                      !.gen = 1]
                               ELSE NewClient]
    /\ registerCh = <<>>
    /\ unregisterCh = <<>>
    /\ broadcastCh = <<>>
    /\ dispatch = EmptyBag
    /\ regSeq = [u \in Users |-> IF u = "u2" THEN 1 ELSE 0]
    /\ lastHub = NoHubOp
    /\ crashed = FALSE
    /\ sends = 0

InitHub == InitMatched /\ InitPartner /\ InitAcceptIdle

SpecHub == InitHub /\ [][NextHub]_vars

\* ------------------------------------------------------- full send queues
\* handleMessage of a "ping" read from connection c: Client.Send of a pong
\* on the connection's own send channel.
Ping(c) ==
    /\ ~crashed
    /\ conn[c].stage = "open"
    /\ sends < MaxSends
    /\ sends' = sends + 1
    /\ conn' = [conn EXCEPT ![c].send =
                   TrySend(@, UserMsg("pong", ConnUser(c), 0, "", conn[c].gen),
                           ClientBufferSize)]
    /\ lastHub' = NoHubOp
    /\ UNCHANGED <<clients, registerCh, unregisterCh, broadcastCh, dispatch, regSeq,
                   crashed, mmVars, rooms, roomVars, accVars>>

\* n queue_joined notices for u1 that nobody has taken yet.
Backlog(n) == [i \in 1..n |-> UserMsg("queue_joined", "u1", 0, "", 1)]

\* A worker that looked up u1's client for a match_found and has not sent it.
Pending == [m |-> UserMsg("match_found", "u1", 1, "", 1), client |-> "c1"]

\* The three users are connected; the dispatch queue and the send channel of
\* c1 are empty, one short of full, or full (workers and WritePump lag).
InitFull ==
    /\ InitMatched
    /\ InitAcceptIdle
    /\ clients = [u \in Users |-> CASE u = "u1" -> "c1" [] u = "u2" -> "c3" [] OTHER -> "c4"]
    /\ \E k \in {0, ClientBufferSize - 1, ClientBufferSize} :
          conn = [c \in Conns |->
                    IF c = "c2" THEN NewClient
                    ELSE [NewClient EXCEPT !.stage = "open", !.writer = TRUE, !.gen = 1,
                                           !.send = IF c = "c1" THEN Backlog(k) ELSE <<>>]]
    /\ registerCh = <<>>
    /\ unregisterCh = <<>>
    /\ \E k \in {0, BroadcastBufferSize - 1, BroadcastBufferSize} : broadcastCh = Backlog(k)
    /\ dispatch \in {EmptyBag, SetToBag({Pending})}
    /\ regSeq = [u \in Users |-> 1]
    /\ lastHub = NoHubOp
    /\ crashed = FALSE
    /\ sends = 0

NextFull ==
    \/ \E u \in Users : BroadcastToUser(u)
    \/ \E c \in Conns : Ping(c)
    \/ \E d \in BagToSet(dispatch) : sendToUser(d)
    \/ \E c \in Conns : relayWebRTC(c, 1)
    \/ \E c \in Conns : ReadPumpExit(c)
    \/ unregisterClient

SpecFull == InitFull /\ [][NextFull]_vars

\* ------------------------------------------------- call-readiness handshake
Variants == {"sorted", "arrival"}

\* The enumerations of a set without repetition.
Orders(S) ==
    {s \in [1..Cardinality(S) -> S] : \A i, j \in 1..Cardinality(S) : s[i] = s[j] => i = j}

\* sort.Strings of the members of S.
SortStrings(S) ==
    CHOOSE s \in Orders(S) : \A i, j \in 1..Len(s) : i < j => UserOrd(s[i]) < UserOrd(s[j])

\* acceptedUsers as the loop over it sees it: SMembers returns the members in
\* an order Redis does not specify; the "sorted" build sorts them.
Listings(v, S) == IF v = "sorted" THEN {SortStrings(S)} ELSE Orders(S)

\* The role given to the user at (1-based) position i: index 1 of the Go
\* slice is the callee, every other index the caller.
Role(i) == IF i = 2 THEN "callee" ELSE "caller"

\* The both_ready events of the loop over acceptedUsers.
BothReady(members) ==
    [i \in 1..Len(members) |->
        UserMsg("both_ready", members[i], 1, Role(i), regSeq[members[i]])]

\* The partner_accepted events to the users listed in order.
PartnerAccepted(order) ==
    [i \in 1..Len(order) |-> UserMsg("partner_accepted", order[i], 1, "", regSeq[order[i]])]

\* The room participants (hash fields user1, user2) other than the caller.
Others(c) == {p \in getRoomParticipants(1) : p # ConnUser(c)}

\* Consecutive BroadcastToUser calls.
RECURSIVE PushAll(_, _)
PushAll(ch, msgs) ==
    IF msgs = <<>> THEN ch
    ELSE PushAll(TrySend(ch, Head(msgs), BroadcastBufferSize), Tail(msgs))

\* Mutant: the delete leaves the set as it is.
DelKey_Bug(set) == set

\* redis.Del of the acceptance key.
DelKey(set) == {}

\* handleAcceptMatch, first part: SAdd of the caller's user and Expire.
AcceptSAdd(c) ==
    /\ ~crashed
    /\ conn[c].stage = "open"
    /\ acc[c] = "idle"
    /\ accepts < MaxAccepts
    /\ accepts' = accepts + 1
    /\ accepted' = accepted \cup {ConnUser(c)}
    /\ sinceClear' = sinceClear \cup {ConnUser(c)}
    /\ acc' = [acc EXCEPT ![c] = "members"]
    /\ lastAccept' = NoAccept
    /\ UNCHANGED <<variant, emitted, handshakes, mmVars, rooms, roomVars, hubVars>>

\* handleAcceptMatch, second part: SMembers and the notifications that the
\* number of members selects.
AcceptSMembers(c) ==
    /\ ~crashed
    /\ acc[c] = "members"
    /\ \E members \in Listings(variant, accepted) :
          /\ lastAccept' = [c |-> c, members |-> members, fresh |-> sinceClear \ {ConnUser(c)}]
          /\ emitted' = IF Len(members) >= 2 THEN emitted \cup {members} ELSE emitted
          /\ IF Len(members) = 1
             THEN /\ acc' = [acc EXCEPT ![c] = "idle"]
                  /\ IF variant = "sorted"
                     THEN /\ \E order \in Orders(Others(c)) :
                                broadcastCh' = PushAll(broadcastCh, PartnerAccepted(order))
                          /\ conn' = conn
                     ELSE /\ conn' = sendToClient(conn, c,
                                        UserMsg("partner_accepted", ConnUser(c), 0, "", conn[c].gen))
                          /\ broadcastCh' = broadcastCh
             ELSE IF Len(members) >= 2
             THEN /\ acc' = [acc EXCEPT ![c] = "del"]
                  /\ conn' = conn
                  /\ IF variant = "sorted"
                     THEN broadcastCh' = PushAll(broadcastCh, BothReady(members))
                     ELSE \E order \in Orders(Others(c)) :
                             broadcastCh' = PushAll(broadcastCh,
                                                    BothReady(members) \o PartnerAccepted(order))
             ELSE /\ acc' = [acc EXCEPT ![c] = "idle"]
                  /\ UNCHANGED <<conn, broadcastCh>>
    /\ UNCHANGED <<variant, accepted, sinceClear, handshakes, accepts, mmVars, rooms, roomVars,
                   clients, registerCh, unregisterCh, dispatch, regSeq, lastHub, crashed,
                   sends>>

\* handleAcceptMatch, last part after two or more members were seen: Del.
AcceptDel(c) ==
    /\ ~crashed
    /\ acc[c] = "del"
    /\ accepted' = DelKey(accepted)
    /\ sinceClear' = {}
    /\ handshakes' = handshakes + 1
    /\ acc' = [acc EXCEPT ![c] = "idle"]
    /\ lastAccept' = NoAccept
    /\ UNCHANGED <<variant, emitted, accepts, mmVars, rooms, roomVars, hubVars>>

\* The acceptance key expires (2 or 5 minutes after the last Expire).
AcceptExpire ==
    /\ accepted # {}
    /\ \A c \in Conns : acc[c] = "idle"
    /\ accepted' = {}
    /\ sinceClear' = {}
    /\ lastAccept' = NoAccept
    /\ UNCHANGED <<variant, emitted, acc, handshakes, accepts, mmVars, rooms, roomVars, hubVars>>

\* The three users are connected (c1, c3, c4) and their welcome is written.
InitConnected ==
    /\ clients = [u \in Users |-> CASE u = "u1" -> "c1" [] u = "u2" -> "c3" [] OTHER -> "c4"]
    /\ conn = [c \in Conns |-> IF c = "c2" THEN NewClient
                               ELSE [NewClient EXCEPT !.stage = "open", !.writer = TRUE,
                                                      !.gen = 1]]
    /\ registerCh = <<>>
    /\ unregisterCh = <<>>
    /\ broadcastCh = <<>>
    /\ dispatch = EmptyBag
    /\ regSeq = [u \in Users |-> 1]
    /\ lastHub = NoHubOp
    /\ crashed = FALSE
    /\ sends = 0

InitAccept ==
    /\ InitMatched
    /\ InitConnected
    /\ variant \in Variants
    /\ accepted = {}
    /\ acc = [c \in Conns |-> "idle"]
    /\ lastAccept = NoAccept
    /\ sinceClear = {}
    /\ handshakes = 0
    /\ emitted = {}
    /\ accepts = 0

NextAccept ==
    \/ \E c \in Conns : AcceptSAdd(c)
    \/ \E c \in Conns : AcceptSMembers(c)
    \/ \E c \in Conns : AcceptDel(c)
    \/ AcceptExpire

SpecAccept == InitAccept /\ [][NextAccept]_vars

\* ------------------------------------------------------------ room relays
\* relayToRoom of a chat message read from connection c for room roomID.
\* The build of part_003 hands it to the dispatch queue with BroadcastToRoom
\* (nobody excluded); the build of client.go calls BroadcastToRoomExcept.
relayToRoom(c, roomID) ==
    /\ ~crashed
    /\ conn[c].stage = "open"
    /\ sends < MaxSends
    /\ sends' = sends + 1
    /\ IF variant = "sorted"
       THEN /\ broadcastCh' = TrySend(broadcastCh,
                                      RoomMsg("message", ConnUser(c), NoUser, roomID),
                                      BroadcastBufferSize)
            /\ UNCHANGED <<conn, crashed>>
       ELSE LET m == RoomMsg("message", ConnUser(c), ConnUser(c), roomID)
                targets == RoomTargets(clients, roomID, ConnUser(c))
            IN  /\ conn' = SendAll(conn, targets, m)
                /\ crashed' = Panics(conn, targets)
                /\ broadcastCh' = broadcastCh
    /\ lastHub' = NoHubOp
    /\ UNCHANGED <<clients, registerCh, unregisterCh, dispatch, regSeq, mmVars, rooms, roomVars,
                   accVars>>

\* handleMediaStateChanged of a mic / camera toggle read from connection c:
\* BroadcastToRoomExcept the sender.
handleMediaStateChanged(c, roomID) ==
    /\ ~crashed
    /\ conn[c].stage = "open"
    /\ sends < MaxSends
    /\ sends' = sends + 1
    /\ LET m == RoomMsg("media_state_changed", ConnUser(c), ConnUser(c), roomID)
           targets == RoomTargets(clients, roomID, ConnUser(c))
       IN  /\ conn' = SendAll(conn, targets, m)
           /\ crashed' = Panics(conn, targets)
    /\ lastHub' = NoHubOp
    /\ UNCHANGED <<clients, registerCh, unregisterCh, broadcastCh, dispatch, regSeq,
                   mmVars, rooms, roomVars, accVars>>

\* The three users are connected; either build of the client.
InitRelay ==
    /\ InitMatched
    /\ InitConnected
    /\ variant \in Variants
    /\ accepted = {}
    /\ acc = [c \in Conns |-> "idle"]
    /\ lastAccept = NoAccept
    /\ sinceClear = {}
    /\ handshakes = 0
    /\ emitted = {}
    /\ accepts = 0

NextRelay ==
    \/ \E c \in Conns : relayWebRTC(c, 1)
    \/ \E c \in Conns : relayToRoom(c, 1)
    \/ \E c \in Conns : handleMediaStateChanged(c, 1)
    \/ handleBroadcast
    \/ \E c \in Conns : WritePump(c)
    \/ \E c \in Conns : ReadPumpExit(c)
    \/ unregisterClient

SpecRelay == InitRelay /\ [][NextRelay]_vars

\* ------------------------------------------------------------ room service
MaxCalls == 4

\* $addToSet and $pull on the participants array.
AddToSet(ps, u) == IF \E i \in 1..Len(ps) : ps[i] = u THEN ps ELSE Append(ps, u)

Pull(ps, u) == SelectSeq(ps, LAMBDA x : x # u)

\* UpdateOne with filter roomId: a missing document matches nothing.
UpdateStatus(rs, roomID, status) ==
    IF roomID \in 1..Len(rs) THEN [rs EXCEPT ![roomID].status = status] ELSE rs

CanCall(g) == svc[g].pc = "idle" /\ svcCalls < MaxCalls

Return(g, result) ==
    /\ svc' = [svc EXCEPT ![g] = NoCall]
    /\ svcRet' = result

\* JoinRoom, FindByRoomID and the check of the participant count.
JoinRoomFind(g, roomID, u) ==
    /\ CanCall(g)
    /\ svcCalls' = svcCalls + 1
    /\ IF roomID \notin 1..Len(records)
       THEN Return(g, "RoomNotFound")
       ELSE IF Len(records[roomID].participants) >= 2
       THEN Return(g, "RoomFull")
       ELSE /\ svc' = [svc EXCEPT ![g] = [op |-> "join", pc |-> "add", room |-> roomID,
                                         user |-> u,
                                         n |-> Len(records[roomID].participants)]]
            /\ svcRet' = "none"
    /\ UNCHANGED <<records, mmVars, rooms, hubVars, accVars,
                   cacheVars>>

\* JoinRoom, AddParticipant; the hash field user_{n} it sets next is not one
\* of the fields user1 / user2 the hub reads.
JoinRoomAdd(g) ==
    /\ svc[g].pc = "add"
    /\ records' = [records EXCEPT ![svc[g].room].participants = AddToSet(@, svc[g].user)]
    /\ IF svc[g].n + 1 >= 2
       THEN /\ svc' = [svc EXCEPT ![g].pc = "activate"]
            /\ svcRet' = "none"
       ELSE Return(g, "ok")
    /\ UNCHANGED <<svcCalls, mmVars, rooms, hubVars, accVars,
                   cacheVars>>

\* JoinRoom, UpdateStatus "active".
JoinRoomActivate(g) ==
    /\ svc[g].pc = "activate"
    /\ records' = UpdateStatus(records, svc[g].room, "active")
    /\ Return(g, "ok")
    /\ UNCHANGED <<svcCalls, mmVars, rooms, hubVars, accVars,
                   cacheVars>>

\* LeaveRoom, FindByRoomID.
LeaveRoomFind(g, roomID, u) ==
    /\ CanCall(g)
    /\ svcCalls' = svcCalls + 1
    /\ IF roomID \notin 1..Len(records)
       THEN Return(g, "RoomNotFound")
       ELSE /\ svc' = [svc EXCEPT ![g] = [op |-> "leave", pc |-> "pull", room |-> roomID,
                                         user |-> u,
                                         n |-> Len(records[roomID].participants)]]
            /\ svcRet' = "none"
    /\ UNCHANGED <<records, mmVars, rooms, hubVars, accVars,
                   cacheVars>>

\* LeaveRoom, RemoveParticipant.
LeaveRoomPull(g) ==
    /\ svc[g].pc = "pull"
    /\ records' = [records EXCEPT ![svc[g].room].participants = Pull(@, svc[g].user)]
    /\ IF svc[g].n <= 1
       THEN /\ svc' = [svc EXCEPT ![g].pc = "end"]
            /\ svcRet' = "none"
       ELSE Return(g, "ok")
    /\ UNCHANGED <<svcCalls, mmVars, rooms, hubVars, accVars,
                   cacheVars>>

\* LeaveRoom, EndRoom when the room it read had at most one participant.
LeaveRoomEnd(g) ==
    /\ svc[g].pc = "end"
    /\ records' = UpdateStatus(records, svc[g].room, "ended")
    /\ Return(g, "ok")
    /\ UNCHANGED <<svcCalls, mmVars, rooms, hubVars, accVars,
                   cacheVars>>

StartRoom(g, roomID) ==
    /\ CanCall(g)
    /\ svcCalls' = svcCalls + 1
    /\ records' = UpdateStatus(records, roomID, "active")
    /\ Return(g, "ok")
    /\ UNCHANGED <<mmVars, rooms, hubVars, accVars,
                   cacheVars>>

EndRoom(g, roomID) ==
    /\ CanCall(g)
    /\ svcCalls' = svcCalls + 1
    /\ records' = UpdateStatus(records, roomID, "ended")
    /\ Return(g, "ok")
    /\ UNCHANGED <<mmVars, rooms, hubVars, accVars,
                   cacheVars>>

\* Room 1 was created for the match of u1 and u2; no connection yet.
InitRoom == InitMatched /\ InitHubIdle /\ InitAcceptIdle

NextRoom ==
    \/ \E g \in Goroutines, roomID \in RoomIDs, u \in Users : JoinRoomFind(g, roomID, u)
    \/ \E g \in Goroutines : JoinRoomAdd(g)
    \/ \E g \in Goroutines : JoinRoomActivate(g)
    \/ \E g \in Goroutines, roomID \in RoomIDs, u \in Users : LeaveRoomFind(g, roomID, u)
    \/ \E g \in Goroutines : LeaveRoomPull(g)
    \/ \E g \in Goroutines : LeaveRoomEnd(g)
    \/ \E g \in Goroutines, roomID \in RoomIDs : StartRoom(g, roomID)
    \/ \E g \in Goroutines, roomID \in RoomIDs : EndRoom(g, roomID)

SpecRoom == InitRoom /\ [][NextRoom]_vars

\* ------------------------------------------------------- order of delivery
\* What JoinQueue and the tryMatch it starts hand to the hub for user u, in
\* the order of the two BroadcastToUser calls.
JoinedThenMatched(u) ==
    <<UserMsg("queue_joined", u, 0, "", 1), UserMsg("match_found", u, 1, "", 1)>>

\* The three users are connected; the two notices for one user wait in the
\* dispatch queue, no worker has taken them yet.
InitOrder ==
    /\ InitMatched
    /\ InitAcceptIdle
    /\ clients = [u \in Users |-> CASE u = "u1" -> "c1" [] u = "u2" -> "c3" [] OTHER -> "c4"]
    /\ conn = [c \in Conns |-> IF c = "c2" THEN NewClient
                               ELSE [NewClient EXCEPT !.stage = "open", !.writer = TRUE,
                                                      !.gen = 1]]
    /\ registerCh = <<>>
    /\ unregisterCh = <<>>
    /\ \E u \in {"u1", "u2"} : broadcastCh = JoinedThenMatched(u)
    /\ dispatch = EmptyBag
    /\ regSeq = [u \in Users |-> 1]
    /\ lastHub = NoHubOp
    /\ crashed = FALSE
    /\ sends = 0

NextOrder ==
    \/ \E u \in Users : BroadcastToUser(u)
    \/ \E c \in Conns : Ping(c)
    \/ handleBroadcast
    \/ \E d \in BagToSet(dispatch) : sendToUser(d)
    \/ \E c \in Conns : WritePump(c)

SpecOrder == InitOrder /\ [][NextOrder]_vars

\* ------------------------------------------------- load on the hub loop
\* A connection of a user that is not followed here.
OtherConn == "cx"

\* n such connections whose ReadPump ended and that wait in Hub.unregister.
Ended(n) == [i \in 1..n |-> OtherConn]

\* Hub.Run takes one of them from the unregister channel.
unregisterOther ==
    /\ ~crashed
    /\ unregisterCh # <<>>
    /\ Head(unregisterCh) = OtherConn
    /\ unregisterCh' = Tail(unregisterCh)
    /\ lastHub' = NoHubOp
    /\ UNCHANGED <<clients, conn, registerCh, broadcastCh, dispatch, regSeq, crashed, sends,
                   mmVars, rooms, roomVars, accVars>>

\* The three users are connected; the unregister channel is empty, one short
\* of full, or full (many connections ended at once).
InitLoad ==
    /\ InitMatched
    /\ InitAcceptIdle
    /\ clients = [u \in Users |-> CASE u = "u1" -> "c1" [] u = "u2" -> "c3" [] OTHER -> "c4"]
    /\ conn = [c \in Conns |-> IF c = "c2" THEN NewClient
                               ELSE [NewClient EXCEPT !.stage = "open", !.writer = TRUE,
                                                      !.gen = 1]]
    /\ registerCh = <<>>
    /\ \E n \in {0, RegisterBuf - 1, RegisterBuf} : unregisterCh = Ended(n)
    /\ broadcastCh = <<>>
    /\ dispatch = EmptyBag
    /\ regSeq = [u \in Users |-> 1]
    /\ lastHub = NoHubOp
    /\ crashed = FALSE
    /\ sends = 0

NextLoad ==
    \/ \E c \in Conns : ReadPumpExit(c)
    \/ unregisterClient
    \/ unregisterOther
    \/ \E c \in Conns : WritePumpExit(c)

\* The hub loop is scheduled fairly: a waiting unregister is taken.
SpecLoad ==
    /\ InitLoad
    /\ [][NextLoad]_vars
    /\ WF_vars(unregisterClient)
    /\ WF_vars(unregisterOther)

\* -------------------------------------------------------------- room cache
MaxLookups == 3

\* roomCacheTTL (30 seconds), in steps of the clock.
RoomCacheTTL == 1

CanLookup(g) == lookup[g].pc = "idle" /\ lookups < MaxLookups

\* getRoomParticipants, the check of the cache under the read lock: a fresh
\* entry is returned, otherwise the call goes on to the store.
LookupCheck(g, roomID) ==
    /\ CanLookup(g)
    /\ lookups' = lookups + 1
    /\ invalidated' = invalidated \ {roomID}
    /\ IF roomCache[roomID].present /\ now - roomCache[roomID].cachedAt < RoomCacheTTL
       THEN /\ got' = [room |-> roomID, result |-> "cached",
                       participants |-> roomCache[roomID].participants,
                       current |-> getRoomParticipants(roomID),
                       age |-> now - roomCache[roomID].fetchedAt,
                       first |-> roomID \in invalidated]
            /\ lookup' = lookup
       ELSE /\ got' = NoGot
            /\ lookup' = [lookup EXCEPT ![g] = [NoLookup EXCEPT !.pc = "fetch", !.room = roomID,
                                                                !.first = roomID \in invalidated]]
    /\ UNCHANGED <<roomCache, expired, records, svc, svcRet, svcCalls, mmVars, rooms,
                   hubVars, accVars>>

\* getRoomParticipants, HGetAll of room:{id}; an error ends the call.
LookupFetch(g) ==
    /\ lookup[g].pc = "fetch"
    /\ \E ok \in BOOLEAN :
         IF ok
         THEN /\ lookup' = [lookup EXCEPT ![g].pc = "store",
                                          ![g].participants = getRoomParticipants(lookup[g].room),
                                          ![g].at = now]
              /\ got' = NoGot
         ELSE /\ lookup' = [lookup EXCEPT ![g] = NoLookup]
              /\ got' = [NoGot EXCEPT !.room = lookup[g].room, !.result = "error"]
    /\ UNCHANGED <<roomCache, expired, invalidated, lookups, records, svc, svcRet, svcCalls,
                   mmVars, rooms, hubVars, accVars>>

\* getRoomParticipants, the store into the cache under the write lock, and
\* the return of what was fetched.
LookupStore(g) ==
    /\ lookup[g].pc = "store"
    /\ roomCache' = [roomCache EXCEPT ![lookup[g].room] =
                        [present |-> TRUE, participants |-> lookup[g].participants,
                         cachedAt |-> now, fetchedAt |-> lookup[g].at]]
    /\ got' = [room |-> lookup[g].room, result |-> "fetched",
               participants |-> lookup[g].participants,
               current |-> getRoomParticipants(lookup[g].room),
               age |-> now - lookup[g].at,
               first |-> lookup[g].first]
    /\ lookup' = [lookup EXCEPT ![g] = NoLookup]
    /\ UNCHANGED <<expired, invalidated, lookups, records, svc, svcRet, svcCalls, mmVars,
                   rooms, hubVars, accVars>>

\* invalidateRoomCache: delete(h.rooms, roomID).
invalidateRoomCache(roomID) ==
    /\ lookups < MaxLookups
    /\ roomID \notin invalidated
    /\ roomCache' = [roomCache EXCEPT ![roomID] = NoCache]
    /\ invalidated' = invalidated \cup {roomID}
    /\ got' = NoGot
    /\ UNCHANGED <<lookup, expired, lookups, records, svc, svcRet, svcCalls, mmVars, rooms,
                   hubVars, accVars>>

\* The hash room:{id} expires in the store (2 hours after the match, 24
\* hours after EndRoom).
RoomHashExpire(roomID) ==
    /\ roomID \in 1..Len(rooms)
    /\ roomID \notin expired
    /\ expired' = expired \cup {roomID}
    /\ got' = NoGot
    /\ UNCHANGED <<roomCache, lookup, invalidated, lookups, records, svc, svcRet, svcCalls,
                   mmVars, rooms, hubVars, accVars>>

\* Room 1 was created for the match of u1 and u2; the cache is empty.
InitCache == InitMatched /\ InitHubIdle /\ InitAcceptIdle

NextCache ==
    \/ Tick
    \/ \E g \in Goroutines, roomID \in RoomIDs : LookupCheck(g, roomID)
    \/ \E g \in Goroutines : LookupFetch(g)
    \/ \E g \in Goroutines : LookupStore(g)
    \/ \E roomID \in RoomIDs : invalidateRoomCache(roomID)
    \/ \E roomID \in RoomIDs : RoomHashExpire(roomID)

SpecCache == InitCache /\ [][NextCache]_vars

\* ------------------------------------------------------ polling the queue
\* The queues of two or more users, in any order of joining.
PollQueues == UNION {Orders(S) : S \in {T \in SUBSET Users : Cardinality(T) >= 2}}

\* The handler GetQueueStatus of a client that keeps polling: the ZRank
\* (ErrNotInQueue ends the request with 404), then FindMatch.
GetQueueStatus(u) ==
    /\ BagCardinality(req) < Cardinality(Goroutines)
    /\ IF Position(queue, u) = 0
       THEN /\ ret' = [NewReq("GetQueueStatus", u) EXCEPT !.result = "NotQueued"]
            /\ req' = req
       ELSE /\ ret' = NoReq
            /\ req' = Fork([NewReq("GetQueueStatus", u) EXCEPT !.pc = "fm_read"])
    /\ UNCHANGED <<now, queue, meta, joins, started, rooms, roomVars, hubVars, accVars>>

\* CreateRoomForMatch returns without an error.
FindCreateOk(r) == FindCreate(r) /\ rooms' # rooms

\* The users of s joined one after the other, in the order of s, and every
\* tryMatch has ended without a match.
InitPoll ==
    /\ \E s \in PollQueues :
          /\ queue = [i \in 1..Len(s) |-> [member |-> s[i], score |-> i, entry |-> 1]]
          /\ meta = {s[i] : i \in 1..Len(s)}
          /\ joins = [u \in Users |-> IF u \in {s[i] : i \in 1..Len(s)} THEN 1 ELSE 0]
          /\ now = Len(s)
    /\ rooms = <<>>
    /\ records = <<>>
    /\ InitSvcIdle
    /\ InitCacheIdle
    /\ req = EmptyBag
    /\ ret = NoReq
    /\ started = 0
    /\ InitHubIdle
    /\ InitAcceptIdle

\* Nobody joins or leaves and no metadata expires; the users poll.
NextPoll ==
    \/ \E u \in Users : GetQueueStatus(u)
    \/ \E r \in InFlight : FindRead(r)
    \/ \E r \in InFlight : FindCreate(r)
    \/ \E r \in InFlight : FindLeave1(r)
    \/ \E r \in InFlight : FindLeave2(r)

\* Every user keeps polling, every request goroutine runs on, and the store
\* does not fail for ever.
SpecPoll ==
    /\ InitPoll
    /\ [][NextPoll]_vars
    /\ \A u \in Users : SF_vars(GetQueueStatus(u))
    /\ \A u \in Users : WF_vars(\E r \in InFlight : r.userID = u /\ FindRead(r))
    /\ SF_vars(\E r \in InFlight : FindCreateOk(r))
    /\ \A u \in Users : WF_vars(\E r \in InFlight : r.userID = u /\ FindLeave1(r))
    /\ \A u \in Users : WF_vars(\E r \in InFlight : r.userID = u /\ FindLeave2(r))

\* ------------------------------------------------- claims on the matchmaking
\* The Queue Entries (user, entry number) a room was formed from.
RoomEntries(i) ==
    {<<rooms[i].user1, rooms[i].entry1>>, <<rooms[i].user2, rooms[i].entry2>>}

HasEntry(q, u, e) == \E i \in 1..Len(q) : q[i].member = u /\ q[i].entry = e

\* C2: redundant concurrent findMatch calls create at most one room for a
\* pair of Queue Entries (room creation is idempotent).
C2_OneRoomPerPair ==
    \A i, j \in 1..Len(rooms) : i # j => RoomEntries(i) # RoomEntries(j)

\* C3: every successful findMatch has created a room with exactly two
\* distinct participants, both read from the queue, and the Queue Entries of
\* both are gone when it returns; the requester, when queued with a user
\* behind it, is paired with the next user, and queueStatus of a participant
\* that has not joined again fails with NotQueued.
C3_MatchFormsPairAndRemovesBoth ==
    ret.result = "matched" =>
            LET r == ret
                room == rooms[r.roomID]
                ms == r.read
                EntryRead(u) == IF u = r.user1 THEN r.entry1 ELSE r.entry2
            IN  /\ room.user1 # room.user2
                /\ {room.user1, room.user2} = {r.user1, r.user2}
                /\ {r.user1, r.user2} \subseteq {ms[i] : i \in 1..Len(ms)}
                /\ \A u \in {r.user1, r.user2} :
                       /\ ~HasEntry(queue, u, EntryRead(u))
                       /\ joins[u] = EntryRead(u) => Position(queue, u) = 0
                /\ \A k \in 1..(Len(ms) - 1) :
                       ms[k] = r.userID => r.user1 = r.userID /\ r.user2 = ms[k + 1]

\* C3 witness: findMatch(u1) returned a room of u1 and u2 read as <<u1, u2>>.
C3_Witness ==
    /\ ret.result = "matched"
    /\ ret.userID = "u1"
    /\ ret.read = <<"u1", "u2">>
    /\ rooms[ret.roomID].user1 = "u1" /\ rooms[ret.roomID].user2 = "u2"
    /\ Position(queue, "u1") = 0 /\ Position(queue, "u2") = 0

\* C4: under any interleaving of findMatch calls no Queue Entry is placed in
\* two rooms with different partners (a user of a formed room is not matched
\* again with a third party).
C4_NoThirdPartyMatch ==
    \A i, j \in 1..Len(rooms) :
        RoomEntries(i) \cap RoomEntries(j) # {} => RoomEntries(i) = RoomEntries(j)

\* C8: each user has at most one Queue Entry in the matchmaking queue.
C8_OneEntryPerUser ==
    \A i, j \in 1..Len(queue) : queue[i].member = queue[j].member => i = j

\* C8 witness: a joinQueue inserted while its user was queued (two joins
\* overlapped), and the user is in the queue.
C8_Witness ==
    /\ ret.added /\ ret.hadEntry
    /\ ret.userID \in ZMembers(queue)

\* C9: a joinQueue of a user who has a Queue Entry fails with AlreadyQueued
\* and leaves the entry as it is, so no joinQueue inserts over an entry, also
\* when two joinQueue calls of the user overlap.
C9_JoinFailsWhenQueued ==
    ret.added => ~ret.hadEntry

\* --------------------------------------------------------- claims on the hub
\* The user messages queued on connection c.
UserMsgsOn(c) ==
    {conn[c].send[i] : i \in {k \in 1..Len(conn[c].send) : conn[c].send[k].kind = "user"}}

\* C6: when unregisterClient processes a connection c whose user's registry
\* entry refers to another (newer) connection, the registry is unchanged, no
\* channel is closed and nothing (no partner_disconnected) is queued on any
\* connection.
C6_StaleUnregisterKeepsNewer ==
    [][(/\ unregisterCh # <<>>
        /\ unregisterCh' = Tail(unregisterCh)
        /\ clients[ConnUser(Head(unregisterCh))] # NoConn
        /\ clients[ConnUser(Head(unregisterCh))] # Head(unregisterCh))
       => (clients' = clients /\ conn' = conn /\ crashed' = crashed)]_vars

C6_Witness ==
    /\ lastHub = [op |-> "unregister", c |-> "c1", stale |-> TRUE]
    /\ conn["c1"].RoomID = 1
    /\ clients["u1"] = "c2"
    /\ clients["u2"] = "c3"
    /\ ~conn["c2"].closed
    /\ \A i \in 1..Len(conn["c3"].send) : conn["c3"].send[i].type # "partner_disconnected"

\* C7: the registry entry of a user refers to the connection registered last
\* for that user, and a message handed to the hub for a user when g
\* registrations of that user had been processed is never queued on (or
\* about to be sent to) a connection registered before the g-th.
C7_LaterConnectionReceives ==
    /\ \A u \in Users : clients[u] # NoConn =>
          /\ ConnUser(clients[u]) = u
          /\ conn[clients[u]].gen = regSeq[u]
    /\ lastHub.op = "register" => clients[ConnUser(lastHub.c)] = lastHub.c
    /\ \A c \in Conns : \A m \in UserMsgsOn(c) : m.to = ConnUser(c) /\ m.gen <= conn[c].gen
    /\ \A d \in BagToSet(dispatch) : d.m.gen <= conn[d.client].gen

C7_Witness ==
    /\ conn["c1"].gen = 1
    /\ conn["c2"].gen = 2
    /\ ~conn["c1"].closed
    /\ conn["c1"].stage = "open"
    /\ clients["u1"] = "c2"
    /\ \E m \in UserMsgsOn("c2") : m.type = "data" /\ m.gen = 2
    /\ \A m \in UserMsgsOn("c1") : m.type # "data"

\* --------------------------------------------------- claims on the handshake
\* The positions of lastAccept.members that were told role.
ToldRole(role) == {i \in 1..Len(lastAccept.members) : Role(i) = role}

\* C1: a handler that sees two or more accepted users tells exactly one of
\* them "caller" and exactly one "callee".
C1_ComplementaryRoles ==
    Len(lastAccept.members) >= 2 =>
        /\ Cardinality(ToldRole("caller")) = 1
        /\ Cardinality(ToldRole("callee")) = 1

\* C5: the Acceptance Set never has more than two members, and it does not
\* stay stored with two or more members once no handler is running.
C5_AtMostTwoAccepted ==
    /\ Cardinality(accepted) <= 2
    /\ (\A c \in Conns : acc[c] = "idle") => Cardinality(accepted) < 2

\* C10: a handler sees two or more members (and so sends both_ready) only if
\* a user other than its own has accepted since the set was last cleared; an
\* accept by one user alone after a completed handshake sees one member.
C10_NoReadyWithoutPartner ==
    /\ Len(lastAccept.members) >= 2 => lastAccept.fresh # {}
    /\ (lastAccept.c # NoConn /\ lastAccept.fresh = {}) =>
          lastAccept.members \in {<<>>, <<ConnUser(lastAccept.c)>>}

C10_Witness ==
    /\ handshakes >= 1
    /\ lastAccept.c = "c1"
    /\ lastAccept.members = <<"u1">>
    /\ lastAccept.fresh = {}
    /\ acc = [c \in Conns |-> "idle"]

\* The messages a step appended to the dispatch queue.
Pushed == {broadcastCh'[i] : i \in (Len(broadcastCh) + 1)..Len(broadcastCh')}

\* C11: when the handler of U's accept reads an Acceptance Set whose only
\* member is U (a participant of the room), that step queues a waiting notice
\* on U's own connection and hands the hub a partner_accepted event for the
\* other participant.
C11_WaitingAndPartnerNotified ==
    [][(/\ lastAccept'.c # NoConn
        /\ lastAccept'.members = <<ConnUser(lastAccept'.c)>>
        /\ ConnUser(lastAccept'.c) \in getRoomParticipants(1))
       => (/\ Len(conn'[lastAccept'.c].send) = Len(conn[lastAccept'.c].send) + 1
           /\ \A p \in Others(lastAccept'.c) :
                 \E m \in Pushed : m.type = "partner_accepted" /\ m.to = p)]_vars

\* The room-scoped messages queued on connection c.
RoomMsgsOn(c) ==
    {conn[c].send[i] : i \in {k \in 1..Len(conn[c].send) : conn[c].send[k].kind = "room"}}

\* C12: a room broadcast that excludes user X is never queued on a
\* connection of X: no connection holds a room message whose excluded user
\* is its own user, and for every set of room participants and every
\* excluded user the connections selected under the current registry belong
\* to other users.
C12_ExcludedNeverReceives ==
    /\ \A c \in Conns : \A m \in RoomMsgsOn(c) : m.exclude # ConnUser(c)
    /\ \A P \in SUBSET Users : \A X \in Users :
          \A c \in RoomTargetsOf(clients, P, X) : ConnUser(c) # X

C12_Witness ==
    /\ clients["u1"] = "c1"
    /\ ~conn["c1"].closed
    /\ clients["u2"] = "c3"
    /\ \E m \in RoomMsgsOn("c3") : m.type = "webrtc" /\ m.from = "u1"
    /\ RoomMsgsOn("c1") = {}

\* C13: a send never waits and never overfills a queue: a send channel or
\* the dispatch queue grows only by one message appended while it holds
\* fewer messages than its capacity; a worker's send on a full channel and a
\* BroadcastToUser on a full dispatch queue complete and leave it unchanged.
C13_DropOnFull ==
    [][/\ \A c \in Conns :
            /\ Len(conn'[c].send) <= ClientBufferSize
            /\ Len(conn'[c].send) > Len(conn[c].send) =>
                  /\ Len(conn[c].send) < ClientBufferSize
                  /\ Len(conn'[c].send) = Len(conn[c].send) + 1
                  /\ SubSeq(conn'[c].send, 1, Len(conn[c].send)) = conn[c].send
       /\ Len(broadcastCh') <= BroadcastBufferSize
       /\ Len(broadcastCh') > Len(broadcastCh) =>
             /\ Len(broadcastCh) < BroadcastBufferSize
             /\ Len(broadcastCh') = Len(broadcastCh) + 1
             /\ SubSeq(broadcastCh', 1, Len(broadcastCh)) = broadcastCh
       /\ \A d \in BagToSet(dispatch) :
             (dispatch' = dispatch (-) SetToBag({d}) /\ dispatch' # dispatch) =>
                conn'[d.client].send = IF Len(conn[d.client].send) < ClientBufferSize
                                       THEN Append(conn[d.client].send, d.m)
                                       ELSE conn[d.client].send
       /\ sends' = sends + 1 =>
             \/ Len(broadcastCh') = Len(broadcastCh) + 1
             \/ \E c \in Conns : Len(conn'[c].send) = Len(conn[c].send) + 1
             \/ /\ broadcastCh' = broadcastCh
                /\ \A c \in Conns : conn'[c].send = conn[c].send
                /\ \/ Len(broadcastCh) = BroadcastBufferSize
                   \/ \E c \in Conns : Len(conn[c].send) = ClientBufferSize]_vars


\* C14: when unregisterClient processes the connection that is its user's
\* current registry entry, the connection's send channel was open before and
\* is closed afterwards, whatever it held.
C14_UnregisterCloses ==
    [][(/\ unregisterCh # <<>>
        /\ unregisterCh' = Tail(unregisterCh)
        /\ clients[ConnUser(Head(unregisterCh))] = Head(unregisterCh))
       => (/\ ~conn[Head(unregisterCh)].closed
           /\ conn'[Head(unregisterCh)].closed)]_vars

\* The hub processes the unregister of a connection that is its user's
\* current registry entry.
UnregisterOfCurrent ==
    /\ unregisterCh # <<>>
    /\ unregisterCh' = Tail(unregisterCh)
    /\ clients[ConnUser(Head(unregisterCh))] = Head(unregisterCh)

\* Connection x is the registered connection of a participant, other than
\* user u, of the room latched on connection c.
IsPartnerOf(x, c, u) ==
    /\ conn[c].RoomID \in 1..Len(rooms)
    /\ \E p \in {rooms[conn[c].RoomID].user1, rooms[conn[c].RoomID].user2} \ {u} :
          clients[p] = x

RelayedOn(c) ==
    {conn[c].send[i] : i \in {k \in 1..Len(conn[c].send) :
                                conn[c].send[k].type \in {"webrtc", "message",
                                                          "media_state_changed"}}}

\* C16: a relayed event is never queued on a connection of its sender; a
\* chat or media-state event is queued only on the connection of the other
\* participant of its room.
C16_SenderNeverReceives ==
    \A c \in Conns : \A m \in RelayedOn(c) :
        /\ m.from # ConnUser(c)
        /\ m.type # "webrtc" =>
              /\ m.roomId \in 1..Len(rooms)
              /\ ConnUser(c) \in {rooms[m.roomId].user1, rooms[m.roomId].user2} \ {m.from}

\* C17: a room document never has more than 2 participants, and a JoinRoom
\* that answers RoomFull leaves the documents as they were.
C17_AtMostTwoParticipants ==
    [][/\ \A i \in 1..Len(records') : Len(records'[i].participants) <= 2
       /\ svcRet' = "RoomFull" => records' = records]_vars

\* The rank of a status on the path waiting -> active -> ended.
StatusOrd(st) == CASE st = "waiting" -> 0 [] st = "active" -> 1 [] st = "ended" -> 2

\* C18: the status of a room never moves back on the path
\* waiting -> active -> ended.
C18_StatusOnlyAdvances ==
    [][\A i \in 1..Len(records) :
          StatusOrd(records[i].status) <= StatusOrd(records'[i].status)]_vars

\* The Queue Entries that were matched into a room.
Matched == UNION {RoomEntries(k) : k \in 1..Len(rooms)}

\* C19: a Queue Entry that was neither removed nor matched is no member of
\* the queue once its expiry window has elapsed.
C19_EntryGoneAfterExpiry ==
    \A i \in 1..Len(queue) :
        <<queue[i].member, queue[i].entry>> \notin Matched
            => now < queue[i].score + MetaTTL

\* C20: two both_ready loops of room 1 that ran over the same pair of accepted
\* users gave every user the same role, whatever the order of the accepts and
\* whichever connection's handler ran the loop.
C20_RolesDeterministic ==
    \A s, t \in emitted :
        (Len(s) = 2 /\ Len(t) = 2 /\ {s[1], s[2]} = {t[1], t[2]}) =>
            \A i, j \in 1..2 : s[i] = t[j] => Role(i) = Role(j)

\* C21: when a JoinQueue adds its user, every Queue Entry that was there when
\* it started and is still there is ranked ahead of the new one (GetQueueStatus
\* position, scan order of FindMatch).
C21_FifoByJoinTime ==
    [][(ret'.op = "JoinQueue" /\ ret'.result = "joined" /\ ~ret'.hadEntry)
       => \A e \in ret'.before \cap Entries(queue') :
             e[1] # ret'.userID =>
                Position(queue', e[1]) < Position(queue', ret'.userID)]_vars

\* The pairs the scan described for findMatch(userID) allows on the members
\* in FIFO order: none with fewer than two members; userID with the member
\* next after it when userID is among the first two; the first two members
\* when userID is not reached before two others were scanned; and some pair
\* of queued users when userID is the second and last member.
NoPair == <<NoUser, NoUser>>

SpecifiedPairs(members, userID) ==
    LET at == {k \in 1..Len(members) : members[k] = userID}
    IN  IF Len(members) < 2 THEN {NoPair}
        ELSE IF at = {} \/ (\A k \in at : k > 2) THEN {<<members[1], members[2]>>}
        ELSE LET k == CHOOSE k \in at : k <= 2
             IN  IF k < Len(members) THEN {<<userID, members[k + 1]>>}
                 ELSE {<<members[i], members[j]>> :
                          i \in 1..Len(members), j \in 1..Len(members)} \ {NoPair}

\* C22: the step of FindMatch that reads the queue and scans it picks a pair
\* the described scan allows; when that is no pair it ends with NoMatchFound
\* and neither the queue nor the rooms change.
C22_FindMatchPair ==
    [][\A r \in InFlight :
         (r.pc = "fm_read" /\ CopiesIn(r, req') < CopiesIn(r, req)) =>
            LET allowed == SpecifiedPairs(ZRange(queue), r.userID)
            IN  IF allowed = {NoPair}
                THEN ret'.result = "NoMatchFound" /\ queue' = queue /\ rooms' = rooms
                ELSE \E r2 \in BagToSet(req') :
                        /\ r2.pc = "fm_create"
                        /\ r2.userID = r.userID
                        /\ <<r2.user1, r2.user2>> \in allowed]_vars

\* C23: the match_found notice of a user, handed to the hub after the user's
\* queue_joined notice, is never on a send channel ahead of it: not before
\* it in the channel, and not in the channel while a worker still holds the
\* queue_joined notice.
C23_FifoPerConnection ==
    \A c \in Conns : \A i \in 1..Len(conn[c].send) :
        conn[c].send[i].type = "match_found" =>
            /\ \A j \in (i + 1)..Len(conn[c].send) :
                  ~(conn[c].send[j].type = "queue_joined"
                    /\ conn[c].send[j].to = conn[c].send[i].to)
            /\ \A d \in BagToSet(dispatch) :
                  ~(d.m.type = "queue_joined" /\ d.m.to = conn[c].send[i].to)

\* C24: a connection whose ReadPump has ended while it is its user's
\* registry entry is eventually no longer that entry.
C24_ReadErrorUnregisters ==
    \A c \in Conns :
        (conn[c].stage = "readDone" /\ clients[ConnUser(c)] = c)
            ~> (clients[ConnUser(c)] # c)

\* C25: a lookup returns the cached participants only if they were fetched
\* less than the TTL ago, and the first lookup started after an invalidate
\* does not return cached participants that differ from what the store holds.
C25_CacheBoundedStaleness ==
    /\ got.result = "cached" => got.age < RoomCacheTTL
    /\ (got.first /\ got.result = "cached") => got.participants = got.current

\* C26: once unregisterClient has closed a send channel nothing is sent on
\* it: the channel does not grow, and no send on it is attempted (which in
\* Go is a panic).
C26_NoEnqueueAfterClose ==
    [][/\ \A c \in Conns : conn[c].closed => Len(conn'[c].send) <= Len(conn[c].send)
       /\ \A d \in BagToSet(dispatch) :
             (dispatch' = dispatch (-) SetToBag({d}) /\ dispatch' # dispatch) =>
                ~conn[d.client].closed
       /\ ~crashed => ~crashed']_vars

\* The both_ready events handed to BroadcastToUser for user u so far.
ReadySent(u) ==
    {i \in 1..Len(broadcastCh) :
        broadcastCh[i].type = "both_ready" /\ broadcastCh[i].to = u}

\* C27: when the only accepts are one by each of the two participants of the
\* room, no participant is sent both_ready more than once.
C27_ReadyAtMostOnce ==
    (/\ accepts = 2
     /\ \A u \in Users : ReadySent(u) # {} => u \in getRoomParticipants(1)) =>
        \A u \in getRoomParticipants(1) : Cardinality(ReadySent(u)) <= 1

\* C28: when FindMatch(U) returns a match, U is one of the two participants of
\* the room it created and the partner it returns is the other one; the users
\* its caller tells about the match are exactly the room's two participants.
C28_ToldAreParticipants ==
    ret.result = "matched" =>
        LET R == rooms[ret.roomID]
        IN  /\ ret.userID \in {R.user1, R.user2}
            /\ {ret.userID, ret.user2} = {R.user1, R.user2}
            /\ Told(ret) = {R.user1, R.user2}

\* C29: the Acceptance Set of room 1 holds participants of room 1 only, and
\* both_ready for room 1 is sent to participants of room 1 only.
C29_OnlyParticipants ==
    /\ accepted \subseteq getRoomParticipants(1)
    /\ \A i \in 1..Len(broadcastCh) :
          broadcastCh[i].type = "both_ready" =>
              broadcastCh[i].to \in getRoomParticipants(1)

\* The rooms whose two participants are both out of the queue.
Formed ==
    {i \in 1..Len(rooms) :
        {rooms[i].user1, rooms[i].user2} \cap ZMembers(queue) = {}}

\* C30: when two or more users are queued, nobody leaves or expires and all
\* keep polling, eventually there is one more room that was created and has
\* its two participants removed from the queue.
C30_PollingEventuallyMatches ==
    \A k \in 0..Cardinality(Users) :
        (Len(queue) >= 2 /\ Cardinality(Formed) = k) ~> (Cardinality(Formed) > k)

\* C30 witness: a poll ended with a match and the room's two participants
\* are out of the queue.
C30_Witness ==
    /\ ret.op = "GetQueueStatus"
    /\ ret.result = "matched"
    /\ ret.roomID \in Formed

====
